---- MODULE Spec2Model ----
(***************************************************************************)
(* Library catalog (LibraryManager) of the 02-modern-js exercises.         *)
(*                                                                         *)
(* The repository holds two implementations of the LibraryManager class:   *)
(*   "v1"  src/unnamed/part_001                     (lines 115-184)        *)
(*   "v2"  src/Quiz 03/Refactor/02-modern-js/library.js (lines 26-160)     *)
(* The variable impl says which of the two files is loaded; it is chosen   *)
(* in Init and never changes, so every property is checked for both.       *)
(*                                                                         *)
(* JavaScript values are tagged records.  Book objects live on a heap and  *)
(* are referred to by reference, as in the source: this.books is an array  *)
(* of references.  Reading a missing property gives undefined, so a        *)
(* missing property and a property holding undefined are both Undef; in an *)
(* updates literal Undef stands for "key not written in the literal".      *)
(* Every updates argument is a fresh object literal of the caller.         *)
(*                                                                         *)
(* The functions of the data module (filterBooksByStatus,                  *)
(* groupBooksByGenre, bookTitleGenerator, createBookSummary) exist in      *)
(* three files, named ORIGINAL, REFACTOR and BUNDLE below; the caller      *)
(* says which one it calls.  formatAvailability and memoize follow impl.   *)
(* Output strings are character sequences; a character outside ASCII is   *)
(* written as its code point, "U+2014" for the em dash.                    *)
(***************************************************************************)
EXTENDS Integers, Sequences, FiniteSets, Bags, TLC

VARIABLES impl, heap, books, statistics, last, gen, memo,
          outside, todo, page, card

\* the pages of the repository that do not use the library
apps == <<todo, page, card>>

vars == <<impl, heap, books, statistics, last, gen, memo, outside, apps>>

---------------------------------------------------------------------------
(* JavaScript values *)

Undef == [t |-> "undefined"]
Null == [t |-> "null"]
Str(s) == [t |-> "string", s |-> s]
Num(n) == [t |-> "number", n |-> n]
Ref(i) == [t |-> "ref", id |-> i]

IsStr(v) == v.t = "string"
IsObj(v) == v.t = "object"
IsRef(v) == v.t = "ref"

\* v == null  (undefined or null): the test of ??, ??= and ?.
Nullish(v) == v.t \in {"undefined", "null"}

\* ToBoolean(v): undefined, null, "" and 0 are falsy; objects are truthy
Truthy(v) ==
    CASE Nullish(v) -> FALSE
      [] IsStr(v) -> v.s # <<>>
      [] v.t = "number" -> v.n # 0
      [] OTHER -> TRUE

\* a ??= b, a ||= b, a &&= b : the value of a afterwards
NullishAssign(a, b) == IF Nullish(a) THEN b ELSE a
OrAssign(a, b) == IF Truthy(a) THEN a ELSE b
AndAssign(a, b) == IF Truthy(a) THEN b ELSE a

---------------------------------------------------------------------------
(* Strings are sequences of one-character strings *)

UpperChars == <<"A", "B", "C", "D", "E", "F", "G", "H", "I", "J", "K", "L", "M",
                "N", "O", "P", "Q", "R", "S", "T", "U", "V", "W", "X", "Y", "Z">>
LowerChars == <<"a", "b", "c", "d", "e", "f", "g", "h", "i", "j", "k", "l", "m",
                "n", "o", "p", "q", "r", "s", "t", "u", "v", "w", "x", "y", "z">>

LowerChar(c) ==
    IF \E i \in 1..Len(UpperChars) : UpperChars[i] = c
    THEN LowerChars[CHOOSE i \in 1..Len(UpperChars) : UpperChars[i] = c]
    ELSE c

\* String.prototype.toLowerCase on a character sequence
toLowerCase(s) == [i \in 1..Len(s) |-> LowerChar(s[i])]

\* String.prototype.includes on character sequences
includes(s, sub) ==
    \E i \in 0..(Len(s) - Len(sub)) : SubSeq(s, i + 1, i + Len(sub)) = sub

---------------------------------------------------------------------------
(* Book objects *)

Book(id, title, author, genre, year, availability) ==
    [t |-> "object", id |-> id, title |-> title, author |-> author,
     genre |-> genre, year |-> year, availability |-> availability]

Avail(status, location, dueDate) ==
    [t |-> "object", status |-> status, location |-> location, dueDate |-> dueDate]

\* the object literal {}
EmptyAvail == Avail(Undef, Undef, Undef)

TopKeys == {"id", "title", "author", "genre", "year", "availability"}
AvailKeys == {"status", "location", "dueDate"}

AVAILABLE == Str(<<"a", "v", "a", "i", "l", "a", "b", "l", "e">>)
CHECKED_OUT == Str(<<"c", "h", "e", "c", "k", "e", "d", "_", "o", "u", "t">>)

\* b.availability?.status
StatusOf(b) == IF Nullish(b.availability) THEN Undef ELSE b.availability.status

---------------------------------------------------------------------------
(* #updateStatistics: the counts of the books array bs over the heap hp *)

CountStatusOff(bs, hp, status) ==
    Len(SelectSeq(bs, LAMBDA r : ~Nullish(hp[r.id].availability)))

CountStatus(bs, hp, status) ==
    Len(SelectSeq(bs, LAMBDA r : StatusOf(hp[r.id]) = status))

updateStatistics(bs, hp) ==
    [total |-> Len(bs),
     available |-> CountStatus(bs, hp, AVAILABLE),
     checkedOut |-> CountStatus(bs, hp, CHECKED_OUT)]

\* the call this.#updateStatistics() that ends addBooks and updateBook:
\* #statistics afterwards, given whether the call was reached
statisticsAfterStale(refreshed, st, bs, hp) == st

statisticsAfter(refreshed, st, bs, hp) ==
    IF refreshed THEN updateStatistics(bs, hp) ELSE st

\* getStatistics(): { ...this.#statistics }; v2 runs #updateStatistics first
getStatistics(im, st, bs, hp) ==
    IF im = "v2" THEN updateStatistics(bs, hp) ELSE st

---------------------------------------------------------------------------
(* searchBooks *)

\* v1, the arrow function match(field, value) of searchBooks
matchNoGuard(field, value, caseSensitive) ==
    IF ~Truthy(value) THEN FALSE
    ELSE IF ~Truthy(field) THEN TRUE
    ELSE IF caseSensitive THEN includes(field.s, value.s)
    ELSE includes(toLowerCase(field.s), toLowerCase(value.s))

matchValueAsTyped(field, value, caseSensitive) ==
    IF ~Truthy(value) \/ ~Truthy(field) THEN TRUE
    ELSE IF caseSensitive THEN includes(field.s, value.s)
    ELSE includes(toLowerCase(field.s), value.s)

match(field, value, caseSensitive) ==
    IF ~Truthy(value) \/ ~Truthy(field) THEN TRUE
    ELSE IF caseSensitive THEN includes(field.s, value.s)
    ELSE includes(toLowerCase(field.s), toLowerCase(value.s))

\* the destructured parameter { title, author, genre } = {}
Criteria(title, author, genre) ==
    [t |-> "object", title |-> title, author |-> author, genre |-> genre]

NoCriteria == Criteria(Undef, Undef, Undef)

SearchKeys == {"title", "author", "genre"}

searchBooksV1(bs, hp, criteria, caseSensitive) ==
    IF criteria = Null
    THEN [threw |-> TRUE, ret |-> Undef]
    ELSE LET c == IF criteria = Undef THEN NoCriteria ELSE criteria
             keep(r) == /\ match(hp[r.id].title, c.title, caseSensitive)
                        /\ match(hp[r.id].author, c.author, caseSensitive)
                        /\ match(hp[r.id].genre, c.genre, caseSensitive)
         IN  [threw |-> FALSE, ret |-> SelectSeq(bs, keep)]

\* v2, the arrow function normalize(str) of searchBooks
normalize(str, caseSensitive) ==
    IF caseSensitive THEN str
    ELSE IF IsStr(str) THEN Str(toLowerCase(str.s))
    ELSE Str(<<>>)

\* v2: normalize(book.field).includes(c) raises a TypeError when the
\* normalized field is undefined or null
fieldThrows(field, c, caseSensitive) ==
    Truthy(c) /\ Nullish(normalize(field, caseSensitive))

fieldMatchesExact(field, c, caseSensitive) ==
    IF Truthy(c) THEN normalize(field, caseSensitive).s = c.s ELSE TRUE

fieldMatches(field, c, caseSensitive) ==
    IF Truthy(c) THEN includes(normalize(field, caseSensitive).s, c.s) ELSE TRUE

searchBooksV2(bs, hp, criteria, caseSensitive) ==
    IF criteria = Null
    THEN [threw |-> TRUE, ret |-> Undef]
    ELSE LET c == IF criteria = Undef THEN NoCriteria ELSE criteria
             tt == normalize(c.title, caseSensitive)
             a == normalize(c.author, caseSensitive)
             g == normalize(c.genre, caseSensitive)
             throws(r) == \/ fieldThrows(hp[r.id].title, tt, caseSensitive)
                          \/ fieldThrows(hp[r.id].author, a, caseSensitive)
                          \/ fieldThrows(hp[r.id].genre, g, caseSensitive)
             keep(r) == /\ fieldMatches(hp[r.id].title, tt, caseSensitive)
                        /\ fieldMatches(hp[r.id].author, a, caseSensitive)
                        /\ fieldMatches(hp[r.id].genre, g, caseSensitive)
         IN  IF \E i \in 1..Len(bs) : throws(bs[i])
             THEN [threw |-> TRUE, ret |-> Undef]
             ELSE [threw |-> FALSE, ret |-> SelectSeq(bs, keep)]

searchBooks(im, bs, hp, criteria, caseSensitive) ==
    IF im = "v1" THEN searchBooksV1(bs, hp, criteria, caseSensitive)
    ELSE searchBooksV2(bs, hp, criteria, caseSensitive)

---------------------------------------------------------------------------
(* updateBook.  The operators take the value of the book object (or the    *)
(* undefined/null argument) and give: threw, whether a TypeError was       *)
(* raised; book, the value of the object afterwards; refreshed, whether    *)
(* #updateStatistics ran.                                                  *)

\* v1: if (value !== undefined) book[key] ??= value, for one key of updates
fillKey(book, updates, k) ==
    IF updates[k] # Undef THEN NullishAssign(book[k], updates[k]) ELSE book[k]

\* v1: Object.entries(updates.availability).forEach(([k, v]) => av[k] ??= v)
fillAvailability(av, upd) ==
    Avail(NullishAssign(av.status, upd.status),
          NullishAssign(av.location, upd.location),
          NullishAssign(av.dueDate, upd.dueDate))

updateBookV1(book, updates) ==
    IF Nullish(updates)
    THEN \* Object.entries(undefined) raises a TypeError
         [threw |-> TRUE, book |-> book, refreshed |-> FALSE]
    ELSE IF Nullish(book) /\ (\E k \in TopKeys : updates[k] # Undef)
    THEN \* book[key] on undefined raises a TypeError at the first entry
         [threw |-> TRUE, book |-> book, refreshed |-> FALSE]
    ELSE IF Nullish(book)
    THEN [threw |-> FALSE, book |-> book, refreshed |-> TRUE]
    ELSE LET b1 == Book(fillKey(book, updates, "id"),
                        fillKey(book, updates, "title"),
                        fillKey(book, updates, "author"),
                        fillKey(book, updates, "genre"),
                        fillKey(book, updates, "year"),
                        fillKey(book, updates, "availability"))
             b2 == IF Truthy(updates.availability)
                   THEN [b1 EXCEPT !.availability =
                            fillAvailability(OrAssign(b1.availability, EmptyAvail),
                                             updates.availability)]
                   ELSE b1
         IN  [threw |-> FALSE, book |-> b2, refreshed |-> TRUE]

\* v2: { ...book.availability, ...updates.availability }
spreadKey(av, upd, k) ==
    IF upd[k] # Undef THEN upd[k]
    ELSE IF IsObj(av) THEN av[k]
    ELSE Undef

spreadAvailability(av, upd) ==
    Avail(spreadKey(av, upd, "status"),
          spreadKey(av, upd, "location"),
          spreadKey(av, upd, "dueDate"))

updateBookV2(book, updates) ==
    IF ~Truthy(book) \/ ~Truthy(updates)
    THEN [threw |-> FALSE, book |-> book, refreshed |-> FALSE]
    ELSE LET b1 == [book EXCEPT
                      !.title = NullishAssign(book.title, updates.title),
                      !.author = OrAssign(book.author, updates.author),
                      !.genre = AndAssign(book.genre, updates.genre)]
             b2 == IF Truthy(updates.availability)
                   THEN [b1 EXCEPT !.availability =
                            spreadAvailability(book.availability, updates.availability)]
                   ELSE b1
         IN  [threw |-> FALSE, book |-> b2, refreshed |-> TRUE]

updateBook(im, book, updates) ==
    IF im = "v1" THEN updateBookV1(book, updates) ELSE updateBookV2(book, updates)

---------------------------------------------------------------------------
(* Bounds and input domains *)

\* number of book objects the caller has created
MaxObjs == 2
\* longest books array reached by addBooks
MaxBooks == 3
\* longest argument list of one addBooks call
MaxArgs == 2
\* longest seed array handed to the constructor
MaxSeed == 1

ObjIds == 1..MaxObjs
Refs == {Ref(i) : i \in ObjIds}

SeqsUpTo(S, n) == UNION {[1..k -> S] : k \in 0..n}

\* the books array of data.js, with titles, authors and genres shortened to
\* one or two letters; the record without availability comes first so that
\* it is present under every bound
books_data ==
    <<Book(Num(3), Str(<<"a">>), Str(<<"b">>), Undef, Num(1994), Undef),
      Book(Num(1), Str(<<"A", "b">>), Str(<<"a">>), Str(<<"a", "b">>), Num(2011),
           Avail(AVAILABLE, Str(<<"L">>), Undef)),
      Book(Num(2), Str(<<"b">>), Str(<<"a">>), Str(<<"a", "b">>), Num(2014),
           Avail(CHECKED_OUT, Undef, Str(<<"D">>))),
      Book(Num(4), Str(<<"A">>), Str(<<"a">>), Str(<<"a", "b">>), Num(2017),
           Avail(AVAILABLE, Str(<<"M">>), Undef))>>

Updates(title, author, genre, year, availability) ==
    Book(Undef, title, author, genre, year, availability)

UpdateLits ==
    {Updates(Undef, Undef, Undef, Undef, Avail(AVAILABLE, Undef, Undef)),
     Updates(Str(<<"y">>), Undef, Str(<<"y">>), Undef,
             Avail(CHECKED_OUT, Undef, Str(<<"E">>)))}

CriteriaLits ==
    {Undef, Criteria(Str(<<"a">>), Undef, Str(<<"a", "b">>))}

---------------------------------------------------------------------------
(* The LibraryManager as a state machine *)

Call(op, args, threw, ret) == [op |-> op, args |-> args, threw |-> threw, ret |-> ret]

\* no title generator has been created yet
NoGenerator == [src |-> "none", idx |-> 0, done |-> TRUE, out |-> <<>>]

\* the value of memoize(fn): the wrapped function fn, const cache = new Map()
\* with no entries, and the bag of the argument lists fn has been invoked
\* with, empty so far
memoize(fn) == [fn |-> fn, cache |-> {}, calls |-> EmptyBag]

\* const expensiveCalculation = memoize((num) => num ** 2 + Math.random())
NewMemo == memoize("random")

\* no code but the manager is looking at the manager's data
NoOutside == [initialBooks |-> <<>>, returned |-> Undef, second |-> Undef]

\* the to-do page right after its script has run on an empty localStorage:
\* tasks = JSON.parse(null) || [], displayTasks() with the filter "all"
TodoLoaded ==
    [tasks |-> <<>>, localStorage |-> Null, activeFilter |-> "all",
     todoList |-> <<>>, now |-> 0, engine |-> "binary"]

\* the fetch page right after its script has run:
\* logActivity("Session started ...") on an empty sessionLog
PageLoaded ==
    [sessionLog |-> <<[msg |-> "Session started", of |-> 0]>>,
     userInfoDiv |-> [shows |-> "nothing", of |-> 0],
     submissions |-> <<>>, requests |-> <<>>]

\* a <product-card> after its constructor, not yet in a document
CardCreated ==
    [name |-> Null, price |-> Null, nameText |-> <<>>, priceText |-> <<>>,
     listeners |-> 0, connected |-> FALSE, dispatched |-> <<>>]

\* the library is used on its own: the other pages are as loaded
LibraryOnly ==
    /\ outside = NoOutside
    /\ todo = TodoLoaded
    /\ page = PageLoaded
    /\ card = CardCreated

\* constructor(initialBooks = []): this.books = [...initialBooks]
Constructed(seed) ==
    /\ gen = NoGenerator
    /\ memo = NewMemo
    /\ books = seed
    /\ statistics = updateStatistics(seed, heap)
    /\ last = Call("constructor", <<seed>>, FALSE, Undef)

Init ==
    /\ impl \in {"v1", "v2"}
    /\ heap = [i \in ObjIds |-> books_data[((i - 1) % Len(books_data)) + 1]]
    /\ \E seed \in SeqsUpTo(Refs, MaxSeed) : Constructed(seed)
    /\ LibraryOnly

pushUnlessPresent(bs, newBooks) ==
    bs \o SelectSeq(newBooks, LAMBDA r : \A i \in 1..Len(bs) : bs[i] # r)

pushFront(bs, newBooks) == newBooks \o bs

\* this.books.push(...newBooks)
push(bs, newBooks) == bs \o newBooks

\* addBooks(...newBooks)
AddBooks(newBooks) ==
    /\ Len(books) + Len(newBooks) <= MaxBooks
    /\ books' = push(books, newBooks)
    /\ statistics' = statisticsAfter(~(impl = "v2" /\ Len(newBooks) = 0),
                                     statistics, books', heap)
    /\ last' = Call("addBooks", newBooks, FALSE, Undef)
    /\ UNCHANGED <<impl, heap, gen, memo, outside, apps>>

\* searchBooks({ title, author, genre } = {}, caseSensitive = false)
SearchBooks(criteria, caseSensitive) ==
    /\ LET r == searchBooks(impl, books, heap, criteria, caseSensitive)
       IN  last' = Call("searchBooks", <<criteria, caseSensitive>>, r.threw, r.ret)
    /\ UNCHANGED <<impl, heap, books, statistics, gen, memo, outside, apps>>

\* getStatistics(): a copy of #statistics; v2 recomputes it first
GetStatistics ==
    /\ statistics' = getStatistics(impl, statistics, books, heap)
    /\ last' = Call("getStatistics", <<>>, FALSE, statistics')
    /\ UNCHANGED <<impl, heap, books, gen, memo, outside, apps>>

\* updateBook(book, updates); target is undefined, null or a reference
UpdateBook(target, updates) ==
    /\ LET cur == IF IsRef(target) THEN heap[target.id] ELSE target
           r == updateBook(impl, cur, updates)
       IN  /\ heap' = IF IsRef(target) THEN [heap EXCEPT ![target.id] = r.book] ELSE heap
           /\ statistics' = statisticsAfter(r.refreshed, statistics, books, heap')
           /\ last' = Call("updateBook", <<target, updates>>, r.threw,
                           IF impl = "v1" /\ ~r.threw THEN target ELSE Undef)
    /\ UNCHANGED <<impl, books, gen, memo, outside, apps>>

Next ==
    \/ \E newBooks \in SeqsUpTo(Refs, MaxArgs) : AddBooks(newBooks)
    \/ \E criteria \in CriteriaLits, caseSensitive \in BOOLEAN :
          SearchBooks(criteria, caseSensitive)
    \/ GetStatistics
    \/ \E target \in Refs \cup {Undef}, updates \in UpdateLits \cup {Undef} :
          UpdateBook(target, updates)

Spec == Init /\ [][Next]_vars

TypeOK ==
    /\ impl \in {"v1", "v2"}
    /\ \A i \in 1..Len(books) : IsRef(books[i]) /\ books[i].id \in DOMAIN heap
    /\ statistics.total \in 0..Len(books)
    /\ last.threw \in BOOLEAN

---------------------------------------------------------------------------
(* Statistics *)

CatalogIdx == 1..Len(books)
BookAt(i) == heap[books[i].id]

HasStatus(i, status) ==
    /\ BookAt(i).availability.t = "object"
    /\ BookAt(i).availability.status = status

NumWithStatus(status) == Cardinality({i \in CatalogIdx : HasStatus(i, status)})
NumWithoutAvailability == Cardinality({i \in CatalogIdx : Nullish(BookAt(i).availability)})

\* C1: after construction and after every addBooks and updateBook call,
\* getStatistics() returns the counts of the current books: total is the
\* number of books, available and checkedOut the numbers of books whose
\* availability.status is 'available' and 'checked_out'.
C1_StatisticsNeverStale ==
    LET s == getStatistics(impl, statistics, books, heap)
    IN  /\ s.total = Len(books)
        /\ s.available = NumWithStatus(AVAILABLE)
        /\ s.checkedOut = NumWithStatus(CHECKED_OUT)

\* the last call was an updateBook of a catalog record that gave the record
\* a status it was not created with, and the snapshot counts it
C1_Witness ==
    /\ last.op = "updateBook"
    /\ ~last.threw
    /\ IsRef(last.args[1])
    /\ \E i \in CatalogIdx :
          /\ books[i] = last.args[1]
          /\ HasStatus(i, CHECKED_OUT)
          /\ StatusOf(books_data[books[i].id]) # CHECKED_OUT
    /\ statistics.checkedOut >= 1

\* C2: in every reachable state the cached statistics have total equal to
\* the number of records and available + checkedOut <= total; a record
\* without availability is counted in total only.
C2_StatisticsInvariant ==
    /\ statistics.total = Len(books)
    /\ statistics.available + statistics.checkedOut <= statistics.total
    /\ statistics.available + statistics.checkedOut
          <= statistics.total - NumWithoutAvailability

\* a catalog of two or more records, one of them without availability and
\* one of them counted as available
C2_Witness ==
    /\ Len(books) >= 2
    /\ NumWithoutAvailability >= 1
    /\ statistics.available >= 1
    /\ statistics.total = Len(books)

---------------------------------------------------------------------------
(* updateBook on one record, over every combination of blank and filled    *)
(* fields and every updates literal                                        *)

StrX == Str(<<"x">>)
StrY == Str(<<"y">>)

UpdateBookRecords ==
    {Book(Num(1), title, author, genre, year, availability) :
        title \in {Undef, StrX},
        author \in {Undef, Str(<<>>), StrX},
        genre \in {Undef, StrX},
        year \in {Undef, Num(1)},
        availability \in {Undef, EmptyAvail, Avail(AVAILABLE, Str(<<"L">>), Undef)}}

UpdateBookUpdates ==
    {Updates(title, author, genre, rest[1], rest[2]) :
        title \in {Undef, StrY},
        author \in {Undef, StrY},
        genre \in {Undef, StrY},
        rest \in {<<Undef, Undef>>,
                  <<Num(2), Avail(CHECKED_OUT, Undef, Str(<<"E">>))>>,
                  <<Undef, Avail(Undef, Str(<<"M">>), Undef)>>}}

InitUpdate ==
    /\ impl \in {"v1", "v2"}
    /\ heap \in [{1} -> UpdateBookRecords]
    /\ Constructed(<<Ref(1)>>)
    /\ LibraryOnly

NextUpdate ==
    \E target \in {Ref(1), Undef, Null}, updates \in UpdateBookUpdates \cup {Undef, Null} :
        UpdateBook(target, updates)

SpecUpdate == InitUpdate /\ [][NextUpdate]_vars

\* a value that is neither absent nor the empty string
NonEmpty(v) == ~Nullish(v) /\ v # Str(<<>>)

FieldKeys == {"title", "author", "genre", "year"}

\* the step is a call updateBook(book, updates) on the heap object book
UpdateBookCall == last'.op = "updateBook" /\ IsRef(last'.args[1])

\* C3: updateBook(book, updates) never overwrites a value that is non-empty
\* on book: every top-level field (title, author, genre, year) and every
\* availability sub-field (status, location, dueDate) that is non-empty
\* before the call has the same value after it, in both implementations.
C3_NeverOverwrites ==
    [][UpdateBookCall =>
        LET id == last'.args[1].id
        IN  /\ \A k \in FieldKeys :
                  NonEmpty(heap[id][k]) => heap'[id][k] = heap[id][k]
            /\ IsObj(heap[id].availability) =>
                  \A k \in AvailKeys :
                      NonEmpty(heap[id].availability[k]) =>
                          /\ IsObj(heap'[id].availability)
                          /\ heap'[id].availability[k] = heap[id].availability[k]]_vars

\* book.availability?.[k]
AvailField(av, k) == IF IsObj(av) THEN av[k] ELSE Undef

\* a key of the updates literal: written, with a value
Supplied(v) == v # Undef

\* C4: updateBook(book, updates) fills in blanks: every field present in
\* updates (title, author, genre, year, each availability sub-field) that is
\* absent on book has, after the call, the value supplied in updates.
C4_FillsBlanks ==
    [][(UpdateBookCall /\ IsObj(last'.args[2])) =>
        LET id == last'.args[1].id
            updates == last'.args[2]
        IN  /\ \A k \in FieldKeys :
                  (Supplied(updates[k]) /\ Nullish(heap[id][k])) =>
                      heap'[id][k] = updates[k]
            /\ IsObj(updates.availability) =>
                  \A k \in AvailKeys :
                      (Supplied(updates.availability[k])
                          /\ Nullish(AvailField(heap[id].availability, k))) =>
                          /\ IsObj(heap'[id].availability)
                          /\ heap'[id].availability[k] = updates.availability[k]]_vars

\* C5: updateBook with an absent (undefined or null) book or an absent
\* updates argument is a silent no-op: no error is raised and the book, the
\* books array and the statistics are unchanged.
C5_AbsentArgumentNoOp ==
    [][(last'.op = "updateBook"
           /\ (Nullish(last'.args[1]) \/ Nullish(last'.args[2]))) =>
        /\ ~last'.threw
        /\ heap' = heap
        /\ books' = books
        /\ statistics' = statistics]_vars

---------------------------------------------------------------------------
(* searchBooks over catalogs of records with and without each field *)

\* longest catalog searched
MaxCatalog == 2

SearchRecords ==
    {Book(Num(1), Str(<<"A", "b">>), Str(<<"a">>), Str(<<"a", "b">>), Num(2011), Undef),
     Book(Num(2), Str(<<"a">>), Str(<<"b">>), Str(<<"B">>), Num(2014), Undef),
     Book(Num(3), Undef, Str(<<"a">>), Str(<<"a", "b">>), Num(1994), Undef),
     Book(Num(4), Str(<<"b">>), Undef, Undef, Num(2017), Undef),
     Book(Num(5), Str(<<"a", "b">>), Str(<<"A">>), Str(<<"A", "b">>), Num(2018), Undef),
     Book(Num(6), Str(<<>>), Str(<<"b">>), Str(<<"b">>), Num(2019), Undef)}

SearchCriteria ==
    {Criteria(title, author, genre) :
        title \in {Undef, Str(<<>>), Str(<<"a">>), Str(<<"A">>)},
        author \in {Undef, Str(<<"B">>)},
        genre \in {Undef, Str(<<"a">>), Str(<<"A", "B">>)}}

InitSearch ==
    /\ impl \in {"v1", "v2"}
    /\ \E n \in 0..MaxCatalog :
          /\ heap \in [1..n -> SearchRecords]
          /\ Constructed([i \in 1..n |-> Ref(i)])
    /\ LibraryOnly

NextSearch ==
    \E criteria \in SearchCriteria \cup {Undef}, caseSensitive \in BOOLEAN :
        SearchBooks(criteria, caseSensitive)

SpecSearch == InitSearch /\ [][NextSearch]_vars

SearchCall == last.op = "searchBooks"
\* the criteria of the last call, with the default {} for an omitted argument
LastCriteria == IF last.args[1] = Undef THEN NoCriteria ELSE last.args[1]
LastCaseSensitive == last.args[2]

\* a criterion that was given: a non-empty string
Given(v) == IsStr(v) /\ v.s # <<>>

Fold(s, caseSensitive) == IF caseSensitive THEN s ELSE toLowerCase(s)

\* the record at catalog position i has field k, and the field contains
\* the criterion c as a substring (letter case ignored unless caseSensitive)
Contains(i, k, c, caseSensitive) ==
    /\ IsStr(BookAt(i)[k])
    /\ includes(Fold(BookAt(i)[k].s, caseSensitive), Fold(c.s, caseSensitive))

Selected(i, criteria, caseSensitive) ==
    \A k \in SearchKeys :
        Given(criteria[k]) => Contains(i, k, criteria[k], caseSensitive)

\* the subsequence of books at the positions in P, in catalog order
RECURSIVE SubCatalog(_, _)
SubCatalog(n, P) ==
    IF n = 0 THEN <<>>
    ELSE IF n \in P THEN Append(SubCatalog(n - 1, P), books[n])
    ELSE SubCatalog(n - 1, P)

\* C6: searchBooks(criteria) returns exactly the subsequence, in catalog
\* order, of the records for which every supplied criterion among title,
\* author and genre is a substring of the record's field; an omitted
\* criterion matches every record and a record that lacks the field of a
\* supplied criterion is excluded.
C6_SearchSubsequence ==
    (SearchCall /\ ~LastCaseSensitive) =>
        /\ ~last.threw
        /\ last.ret = SubCatalog(Len(books),
                         {i \in CatalogIdx : Selected(i, LastCriteria, FALSE)})

\* C7: searchBooks() and searchBooks({}) return all records of the catalog
\* in catalog order.
C7_NoCriteriaReturnsAll ==
    (SearchCall /\ LastCriteria = NoCriteria) =>
        /\ ~last.threw
        /\ last.ret = books

\* a search without criteria over a catalog of two different records
C7_Witness ==
    /\ SearchCall
    /\ last.args[1] \in {Undef, NoCriteria}
    /\ Len(books) = 2
    /\ BookAt(1) # BookAt(2)
    /\ last.ret = books

GenreOnly == ~Given(LastCriteria.title) /\ ~Given(LastCriteria.author)

SameUpToCase(c1, c2) ==
    \A k \in SearchKeys :
        \/ c1[k] = c2[k]
        \/ IsStr(c1[k]) /\ IsStr(c2[k]) /\ toLowerCase(c1[k].s) = toLowerCase(c2[k].s)

LowerValue(v) == IF IsStr(v) THEN Str(toLowerCase(v.s)) ELSE v

LowerCriteria(c) == Criteria(LowerValue(c.title), LowerValue(c.author), LowerValue(c.genre))

\* the heap with title, author and genre of every record in lower case
LowerHeap ==
    [i \in DOMAIN heap |->
        [heap[i] EXCEPT !.title = LowerValue(heap[i].title),
                        !.author = LowerValue(heap[i].author),
                        !.genre = LowerValue(heap[i].genre)]]

\* the record at position i contains criterion k only in another letter case
CaseOnlyMatch(i, k) ==
    /\ Given(LastCriteria[k])
    /\ Contains(i, k, LastCriteria[k], FALSE)
    /\ ~Contains(i, k, LastCriteria[k], TRUE)

\* C9: searchBooks is case-insensitive by default: with caseSensitive
\* omitted or false the result is the same for criteria that differ only in
\* letter case and for catalogs whose fields differ only in letter case;
\* with caseSensitive = true a record whose field contains the criterion
\* only in a different letter case is not returned.
C9_CaseInsensitiveByDefault ==
    SearchCall =>
        /\ ~LastCaseSensitive =>
              /\ ~last.threw
              /\ searchBooks(impl, books, heap, LowerCriteria(LastCriteria), FALSE).ret
                    = last.ret
              /\ \A c2 \in SearchCriteria :
                    SameUpToCase(LastCriteria, c2) =>
                        searchBooks(impl, books, heap, c2, FALSE).ret = last.ret
              /\ searchBooks(impl, books, LowerHeap, LastCriteria, FALSE).ret = last.ret
        /\ (LastCaseSensitive /\ ~last.threw) =>
              \A i \in CatalogIdx : \A k \in SearchKeys :
                  CaseOnlyMatch(i, k) =>
                      \A j \in 1..Len(last.ret) : last.ret[j] # books[i]

\* a default search with an upper-case criterion that returned a record
\* whose field has the criterion in lower case only
C9_Witness ==
    /\ SearchCall
    /\ ~LastCaseSensitive
    /\ Len(last.ret) >= 1
    /\ \E i \in CatalogIdx :
          /\ last.ret[1] = books[i]
          /\ CaseOnlyMatch(i, "title")

\* C10: searchBooks never raises an error: for any catalog (records missing
\* title, author or genre included), any criteria and either value of
\* caseSensitive it returns a sequence, which is empty when no record
\* matches.
C10_SearchNeverThrows ==
    SearchCall =>
        /\ ~last.threw
        /\ (\A i \in CatalogIdx : ~Selected(i, LastCriteria, LastCaseSensitive)) =>
              last.ret = <<>>

---------------------------------------------------------------------------
(* addBooks *)

\* the four operations on the catalog, each with arguments it accepts
NextAdd ==
    \/ \E newBooks \in SeqsUpTo(Refs, MaxArgs) : AddBooks(newBooks)
    \/ GetStatistics
    \/ \E target \in Refs, updates \in UpdateLits : UpdateBook(target, updates)
    \/ \E criteria \in CriteriaLits : SearchBooks(criteria, FALSE)

SpecAdd == Init /\ [][NextAdd]_vars

\* C11: addBooks(r1, ..., rk) appends all k records at the end of the
\* catalog in the order given, so the length grows by exactly k and the
\* records already there keep their places; nothing is de-duplicated, a
\* record whose id is already in the catalog is appended all the same; with
\* k = 0 the catalog and the statistics are left as they were.
C11_AddBooksAppends ==
    [][last'.op = "addBooks" =>
          LET k == Len(last'.args)
          IN  /\ Len(books') = Len(books) + k
              /\ \A i \in 1..Len(books) : books'[i] = books[i]
              /\ \A j \in 1..k : books'[Len(books) + j] = last'.args[j]
              /\ heap' = heap
              /\ k = 0 => books' = books /\ statistics' = statistics]_vars

\* two records were added in one call to a catalog that already held the
\* first of them, and both are at the end
C11_Witness ==
    /\ last.op = "addBooks"
    /\ Len(last.args) = 2
    /\ Len(books) >= 3
    /\ books[Len(books) - 1] = last.args[1]
    /\ books[Len(books)] = last.args[2]
    /\ \E i \in 1..(Len(books) - 2) :
          heap[books[i].id].id = heap[last.args[1].id].id

---------------------------------------------------------------------------
(* The data module: filterBooksByStatus, groupBooksByGenre and            *)
(* createBookSummary exist in three files, formatAvailability in two       *)

ORIGINAL == "02-modern-js/data.js"
REFACTOR == "Quiz 03/Refactor/02-modern-js/data.js"
BUNDLE == "Quiz 03/Refactor/02-modern-js/library.js"

DataModules == {ORIGINAL, REFACTOR, BUNDLE}

\* an array value handed to a function
Arr(a) == [t |-> "array", a |-> a]

\* Array.isArray(v)
IsArray(v) == v.t = "array"

Return(v) == [threw |-> FALSE, ret |-> v]
Throw == [threw |-> TRUE, ret |-> Undef]

\* the filter callback for one book:
\*   ORIGINAL          book.availability?.status === status
\*   REFACTOR, BUNDLE  book.availability?.status?.toLowerCase()
\*                        === status.toLowerCase()
\* the left operand is evaluated first; toLowerCase exists on strings only
statusTest(module, book, status) ==
    LET left == StatusOf(book)
    IN  IF module = ORIGINAL THEN Return(left = status)
        ELSE IF ~Nullish(left) /\ ~IsStr(left) THEN Throw
        ELSE IF ~IsStr(status) THEN Throw
        ELSE Return(IsStr(left) /\ toLowerCase(left.s) = toLowerCase(status.s))

\* filterBooksByStatus(bookArray, status); REFACTOR answers [] to a
\* bookArray that is not an array, the others call .filter on it
filterBooksByStatus(module, bookArray, hp, status) ==
    IF ~IsArray(bookArray)
    THEN IF module = REFACTOR THEN Return(<<>>) ELSE Throw
    ELSE IF \E i \in 1..Len(bookArray.a) :
               statusTest(module, hp[bookArray.a[i].id], status).threw
         THEN Throw
         ELSE Return(SelectSeq(bookArray.a,
                        LAMBDA r : statusTest(module, hp[r.id], status).ret))

\* map.has(key) on a Map kept as its entries in insertion order
MapHas(map, key) == \E i \in 1..Len(map) : map[i].key = key

groupStepFront(map, r, hp) ==
    LET genre == hp[r.id].genre
        m1 == IF MapHas(map, genre) THEN map
              ELSE Append(map, [key |-> genre, value |-> <<>>])
    IN  [i \in 1..Len(m1) |->
            IF m1[i].key = genre THEN [m1[i] EXCEPT !.value = <<r>> \o @] ELSE m1[i]]

\* if (!map.has(genre)) map.set(genre, []); map.get(genre).push(book)
groupStep(map, r, hp) ==
    LET genre == hp[r.id].genre
        m1 == IF MapHas(map, genre) THEN map
              ELSE Append(map, [key |-> genre, value |-> <<>>])
    IN  [i \in 1..Len(m1) |->
            IF m1[i].key = genre THEN [m1[i] EXCEPT !.value = Append(@, r)] ELSE m1[i]]

RECURSIVE groupFrom(_, _, _)
\* the reduce (ORIGINAL) or for-of loop (REFACTOR, BUNDLE) from map onwards
groupFrom(map, bookArray, hp) ==
    IF bookArray = <<>> THEN map
    ELSE groupFrom(groupStep(map, Head(bookArray), hp), Tail(bookArray), hp)

\* groupBooksByGenre(bookArray): the three files build the same Map
groupBooksByGenre(module, bookArray, hp) == groupFrom(<<>>, bookArray, hp)

Digits == <<"0", "1", "2", "3", "4", "5", "6", "7", "8", "9">>

RECURSIVE NumberToString(_)
\* Number::toString for a non-negative integer
NumberToString(n) ==
    IF n < 10 THEN <<Digits[n + 1]>>
    ELSE NumberToString(n \div 10) \o <<Digits[(n % 10) + 1]>>

UNDEFINED == <<"u", "n", "d", "e", "f", "i", "n", "e", "d">>
NULL == <<"n", "u", "l", "l">>
SEP_BY == <<" ", "b", "y", " ">>
PAREN_OPEN == <<" ", "(">>
PAREN_CLOSE == <<")">>
HYPHEN == <<" ", "-", " ">>
EM_DASH == <<" ", "U+2014", " ">>
AVAILABLE_AT ==
    <<"A", "v", "a", "i", "l", "a", "b", "l", "e", " ", "a", "t", " ">>
UNKNOWN_LOCATION ==
    <<"U", "n", "k", "n", "o", "w", "n", " ", "L", "o", "c", "a", "t", "i",
      "o", "n">>
CHECKED_OUT_DUE_ON ==
    <<"C", "h", "e", "c", "k", "e", "d", " ", "o", "u", "t", ",", " ", "d",
      "u", "e", " ", "o", "n", " ">>
N_A == <<"N", "/", "A">>
STATUS_UNKNOWN ==
    <<"S", "t", "a", "t", "u", "s", " ", "U", "n", "k", "n", "o", "w", "n">>
AVAILABILITY_UNKNOWN ==
    <<"A", "v", "a", "i", "l", "a", "b", "i", "l", "i", "t", "y", " ", "u",
      "n", "k", "n", "o", "w", "n">>
CHECKED_OUT_DUE ==
    <<"C", "h", "e", "c", "k", "e", "d", " ", "o", "u", "t", " ", "(", "d",
      "u", "e", " ">>
STATUS_UNKNOWN_LOWER ==
    <<"S", "t", "a", "t", "u", "s", " ", "u", "n", "k", "n", "o", "w", "n">>
INVALID_BOOK_DATA ==
    <<"I", "n", "v", "a", "l", "i", "d", " ", "b", "o", "o", "k", " ", "d",
      "a", "t", "a", ".">>
UNKNOWN == <<"u", "n", "k", "n", "o", "w", "n">>
UI_AVAILABILITY_UNKNOWN ==
    <<"A", "v", "a", "i", "l", "a", "b", "i", "l", "i", "t", "y", " ", "u",
      "n", "k", "n", "o", "w", "n", " ", "U+2753">>
UI_AVAILABLE_AT ==
    <<"A", "v", "a", "i", "l", "a", "b", "l", "e", " ", "U+2705", " ", "a",
      "t", " ">>
UI_UNKNOWN_LOCATION ==
    <<"U", "n", "k", "n", "o", "w", "n", " ", "l", "o", "c", "a", "t", "i",
      "o", "n">>
UI_CHECKED_OUT_DUE_ON ==
    <<"C", "h", "e", "c", "k", "e", "d", " ", "O", "u", "t", " ", "U+23F3",
      ",", " ", "d", "u", "e", " ", "o", "n", " ">>
UI_UNKNOWN_DATE ==
    <<"U", "n", "k", "n", "o", "w", "n", " ", "d", "a", "t", "e">>
UI_STATUS_UNKNOWN ==
    <<"S", "t", "a", "t", "u", "s", " ", "u", "n", "k", "n", "o", "w", "n",
      " ", "U+2753">>
UI_AVAILABLE == <<"U+2705", " ", "A", "v", "a", "i", "l", "a", "b", "l", "e">>
UI_CHECKED_OUT ==
    <<"U+274C", " ", "C", "h", "e", "c", "k", "e", "d", " ", "O", "u", "t">>
UI_DUE == <<" ", "(", "D", "u", "e", ":", " ">>
UI_UNKNOWN_STATUS ==
    <<"U+26AA", " ", "U", "n", "k", "n", "o", "w", "n", " ", "S", "t", "a",
      "t", "u", "s">>

\* the abstract operation ToString(v), as applied by ${v} in a template literal
ToStr(v) ==
    CASE IsStr(v) -> v.s
      [] v.t = "number" -> NumberToString(v.n)
      [] v.t = "null" -> NULL
      [] OTHER -> UNDEFINED

\* a ?? b
Coalesce(a, b) == IF Nullish(a) THEN b ELSE a

\* the availability text of createBookSummary in each file
availabilityText(module, status, location, dueDate) ==
    CASE module = ORIGINAL ->
           IF status = AVAILABLE THEN AVAILABLE_AT \o ToStr(location)
           ELSE IF status = CHECKED_OUT THEN CHECKED_OUT_DUE_ON \o ToStr(dueDate)
           ELSE AVAILABILITY_UNKNOWN
      [] module = REFACTOR ->
           IF status = AVAILABLE THEN AVAILABLE_AT \o ToStr(location)
           ELSE IF status = CHECKED_OUT
                THEN CHECKED_OUT_DUE \o ToStr(dueDate) \o PAREN_CLOSE
           ELSE STATUS_UNKNOWN_LOWER
      [] module = BUNDLE ->
           IF status = AVAILABLE
           THEN AVAILABLE_AT \o ToStr(Coalesce(location, Str(UNKNOWN_LOCATION)))
           ELSE IF status = CHECKED_OUT
                THEN CHECKED_OUT_DUE_ON \o ToStr(Coalesce(dueDate, Str(N_A)))
           ELSE STATUS_UNKNOWN

\* createBookSummary(book): the destructuring default = {} stands in for
\* an undefined availability only, so destructuring a null availability
\* throws, as does destructuring an undefined or null book; REFACTOR
\* answers a falsy book first and defaults status to "unknown"
createBookSummary(module, book) ==
    IF module = REFACTOR /\ ~Truthy(book) THEN Return(Str(INVALID_BOOK_DATA))
    ELSE IF Nullish(book) THEN Throw
    ELSE IF book.availability = Null THEN Throw
    ELSE LET av == IF book.availability = Undef THEN EmptyAvail
                   ELSE book.availability
             status == IF module = REFACTOR /\ av.status = Undef
                       THEN Str(UNKNOWN) ELSE av.status
         IN  Return(Str(ToStr(book.title) \o SEP_BY \o ToStr(book.author)
                        \o PAREN_OPEN \o ToStr(book.year) \o PAREN_CLOSE
                        \o (IF module = BUNDLE THEN EM_DASH ELSE HYPHEN)
                        \o availabilityText(module, status, av.location,
                                            av.dueDate)))

\* formatAvailability(availability) of the ui module: v1 in part_001, v2 in
\* library.js
formatAvailability(im, availability) ==
    IF im = "v1"
    THEN IF ~Truthy(availability) THEN Str(UI_AVAILABILITY_UNKNOWN)
         ELSE IF availability.status = AVAILABLE
              THEN Str(UI_AVAILABLE_AT
                       \o ToStr(Coalesce(availability.location,
                                            Str(UI_UNKNOWN_LOCATION))))
         ELSE IF availability.status = CHECKED_OUT
              THEN Str(UI_CHECKED_OUT_DUE_ON
                       \o ToStr(Coalesce(availability.dueDate,
                                            Str(UI_UNKNOWN_DATE))))
         ELSE Str(UI_STATUS_UNKNOWN)
    ELSE LET status == IF Nullish(availability) THEN Str(UNKNOWN)
                       ELSE Coalesce(availability.status, Str(UNKNOWN))
             dueDate == IF Nullish(availability) THEN Null
                        ELSE Coalesce(availability.dueDate, Null)
         IN  IF status = AVAILABLE THEN Str(UI_AVAILABLE)
             ELSE IF status = CHECKED_OUT
                  THEN Str(UI_CHECKED_OUT
                           \o (IF Truthy(dueDate)
                               THEN UI_DUE \o ToStr(dueDate) \o PAREN_CLOSE
                               ELSE <<>>))
             ELSE Str(UI_UNKNOWN_STATUS)

\* longest catalog the data functions are applied to
MaxData == 2

Available == Str(<<"A", "v", "a", "i", "l", "a", "b", "l", "e">>)
AVAILABLE_UPPER == Str(<<"A", "V", "A", "I", "L", "A", "B", "L", "E">>)
\* records as in data.js (availability present or missing), and the other
\* shapes availability can take: null, a field missing, a status in another
\* letter case
DataRecords ==
    {Book(Num(1), Str(<<"A">>), Str(<<"b">>), Str(<<"g">>), Num(2011),
          Avail(AVAILABLE, Str(<<"L">>), Undef)),
     Book(Num(2), Str(<<"b">>), Str(<<"a">>), Str(<<"g">>), Num(2014),
          Avail(CHECKED_OUT, Undef, Str(<<"D">>))),
     Book(Num(3), Str(<<"c">>), Str(<<"b">>), Str(<<"h">>), Num(1994), Undef),
     Book(Num(4), Str(<<"d">>), Str(<<"a">>), Undef, Num(7), Null),
     Book(Num(5), Str(<<"e">>), Str(<<"b">>), Str(<<"h">>), Num(2017),
          Avail(AVAILABLE, Undef, Undef)),
     Book(Num(6), Str(<<"f">>), Str(<<"b">>), Str(<<"G">>), Num(2008),
          Avail(Available, Str(<<"M">>), Undef))}

\* status arguments: the two known ones, another letter case, none
StatusArgs == {AVAILABLE, AVAILABLE_UPPER, CHECKED_OUT, Undef}

FilterBooksByStatus(module, bookArray, status) ==
    /\ LET r == filterBooksByStatus(module, bookArray, heap, status)
       IN  last' = Call("filterBooksByStatus", <<module, bookArray, status>>,
                        r.threw, r.ret)
    /\ UNCHANGED <<impl, heap, books, statistics, gen, memo, outside, apps>>

GroupBooksByGenre(module) ==
    /\ last' = Call("groupBooksByGenre", <<module, Arr(books)>>, FALSE,
                    groupBooksByGenre(module, books, heap))
    /\ UNCHANGED <<impl, heap, books, statistics, gen, memo, outside, apps>>

\* book is undefined, null or a reference to a book object
CreateBookSummary(module, book) ==
    /\ LET r == createBookSummary(module,
                                  IF IsRef(book) THEN heap[book.id] ELSE book)
       IN  last' = Call("createBookSummary", <<module, book>>, r.threw, r.ret)
    /\ UNCHANGED <<impl, heap, books, statistics, gen, memo, outside, apps>>

FormatAvailability(availability) ==
    /\ last' = Call("formatAvailability", <<availability>>, FALSE,
                    formatAvailability(impl, availability))
    /\ UNCHANGED <<impl, heap, books, statistics, gen, memo, outside, apps>>

InitData ==
    /\ impl \in {"v1", "v2"}
    /\ \E n \in 0..MaxData :
          /\ heap \in [1..n -> DataRecords]
          /\ Constructed([i \in 1..n |-> Ref(i)])
    /\ LibraryOnly

NextData ==
    \/ \E module \in DataModules, status \in StatusArgs :
          FilterBooksByStatus(module, Arr(books), status)
    \/ \E module \in DataModules : FilterBooksByStatus(module, Undef, AVAILABLE)
    \/ \E module \in DataModules : GroupBooksByGenre(module)
    \/ \E module \in DataModules,
          book \in {books[i] : i \in 1..Len(books)} \cup {Undef} :
          CreateBookSummary(module, book)
    \/ \E availability \in
             {heap[books[i].id].availability : i \in 1..Len(books)} \cup {Undef} :
          FormatAvailability(availability)
    \/ GetStatistics

SpecData == InitData /\ [][NextData]_vars

---------------------------------------------------------------------------
(* filterBooksByStatus *)

FilterCall == last.op = "filterBooksByStatus"
FilterModule == last.args[1]
FilterArray == last.args[2]
FilterStatus == last.args[3]

\* the availability status of book equals s, letter case normalized
StatusEquals(book, s) ==
    /\ IsStr(StatusOf(book))
    /\ toLowerCase(StatusOf(book).s) = toLowerCase(s.s)

C13_AbsentAvailabilityNeverReturned ==
    (FilterCall /\ IsArray(FilterArray)) =>
        /\ ~last.threw =>
              \A i \in 1..Len(last.ret) :
                  ~Nullish(heap[last.ret[i].id].availability)
        /\ last.threw => ~IsStr(FilterStatus)

UpperChar(c) ==
    IF \E i \in 1..Len(LowerChars) : LowerChars[i] = c
    THEN UpperChars[CHOOSE i \in 1..Len(LowerChars) : LowerChars[i] = c]
    ELSE c

\* two other letter-casings of the string s
Casings(s) == {toLowerCase(s), [i \in 1..Len(s) |-> UpperChar(s[i])]}

\* C14: in every variant the result of filterBooksByStatus for a status s
\* is the result for any other letter-casing of s.
C14_FilterIgnoresCase ==
    (FilterCall /\ IsArray(FilterArray) /\ IsStr(FilterStatus)) =>
        \A c \in Casings(FilterStatus.s) :
            LET r == filterBooksByStatus(FilterModule, FilterArray, heap, Str(c))
            IN  r.threw = last.threw /\ r.ret = last.ret

---------------------------------------------------------------------------
(* groupBooksByGenre *)

GroupCall == last.op = "groupBooksByGenre"
GroupArray == last.args[2].a
GenreAt(i) == heap[GroupArray[i].id].genre

\* the first position of GroupArray whose record has genre key
FirstSeen(key) ==
    CHOOSE i \in 1..Len(GroupArray) :
        GenreAt(i) = key /\ \A j \in 1..(i - 1) : GenreAt(j) # key

\* C15: groupBooksByGenre(R) partitions R exactly: every record is in the
\* group keyed by its genre and in no other, no group is empty, the keys
\* come in the order in which the genres first appear in R, and each group
\* holds its records in their order in R, so the groups together have as
\* many records as R.
C15_GroupPartitions ==
    GroupCall =>
        /\ ~last.threw
        /\ \A i \in 1..Len(GroupArray) :
              \E g \in 1..Len(last.ret) : last.ret[g].key = GenreAt(i)
        /\ \A g \in 1..Len(last.ret) :
              /\ last.ret[g].value # <<>>
              /\ last.ret[g].value =
                    SelectSeq(GroupArray,
                              LAMBDA r : heap[r.id].genre = last.ret[g].key)
              /\ \A h \in 1..Len(last.ret) :
                    g < h => /\ last.ret[g].key # last.ret[h].key
                             /\ FirstSeen(last.ret[g].key) < FirstSeen(last.ret[h].key)

\* a catalog of two records of the same genre was grouped
C15_Witness ==
    /\ GroupCall
    /\ Len(GroupArray) = 2
    /\ GenreAt(1) = GenreAt(2)
    /\ Len(last.ret) = 1
    /\ Len(last.ret[1].value) = 2

---------------------------------------------------------------------------
(* bookTitleGenerator *)

\* the array books exported by data.js: every book object, in order; the
\* default manager is constructed from it and keeps a copy of its own
DataBooks == [i \in ObjIds |-> Ref(i)]

\* the array a generator walks: the manager's own array when it was created
\* as bookTitleGenerator(library.books), the data.js array when it was
\* created as bookTitleGenerator(books), as showGeneratorExample does
GenArray(g, bs) == IF g.src = "library.books" THEN bs ELSE DataBooks

\* { value, done } as returned by next()
IterResult(value, done) == [t |-> "object", value |-> value, done |-> done]

generatorNextShort(g, a, hp) ==
    IF ~g.done /\ g.idx < Len(a) - 1
    THEN [gen |-> [g EXCEPT !.idx = @ + 1,
                            !.out = Append(@, hp[a[g.idx + 1].id].title)],
          ret |-> IterResult(hp[a[g.idx + 1].id].title, FALSE)]
    ELSE [gen |-> [g EXCEPT !.done = TRUE], ret |-> IterResult(Undef, TRUE)]

\* one next() of the generator g over the array a: the for-of loop asks the
\* array for its element at the current index, against its current length
generatorNext(g, a, hp) ==
    IF ~g.done /\ g.idx < Len(a)
    THEN [gen |-> [g EXCEPT !.idx = @ + 1,
                            !.out = Append(@, hp[a[g.idx + 1].id].title)],
          ret |-> IterResult(hp[a[g.idx + 1].id].title, FALSE)]
    ELSE [gen |-> [g EXCEPT !.done = TRUE], ret |-> IterResult(Undef, TRUE)]

RECURSIVE forOf(_, _, _)
\* for (const title of generator) ... : next() until done
forOf(g, a, hp) ==
    IF g.done THEN g ELSE forOf(generatorNext(g, a, hp).gen, a, hp)

\* bookTitleGenerator(bookArray): a generator suspended at its start; out
\* collects what it has yielded
bookTitleGenerator(src) == [src |-> src, idx |-> 0, done |-> FALSE, out |-> <<>>]

BookTitleGenerator(src) ==
    /\ gen' = bookTitleGenerator(src)
    /\ last' = Call("bookTitleGenerator", <<src>>, FALSE, Undef)
    /\ UNCHANGED <<impl, heap, books, statistics, memo, outside, apps>>

GeneratorNext ==
    /\ gen.src # "none"
    /\ LET r == generatorNext(gen, GenArray(gen, books), heap)
       IN  /\ gen' = r.gen
           /\ last' = Call("next", <<>>, FALSE, r.ret)
    /\ UNCHANGED <<impl, heap, books, statistics, memo, outside, apps>>

\* const generator = bookTitleGenerator(books); for (const title of generator)
ShowGeneratorExample ==
    /\ gen' = forOf(bookTitleGenerator("books"), DataBooks, heap)
    /\ last' = Call("showGeneratorExample", <<>>, FALSE, Undef)
    /\ UNCHANGED <<impl, heap, books, statistics, memo, outside, apps>>

\* export default new LibraryManager(books)
InitTitles ==
    /\ impl \in {"v1", "v2"}
    /\ heap = [i \in ObjIds |-> books_data[((i - 1) % Len(books_data)) + 1]]
    /\ Constructed(DataBooks)
    /\ LibraryOnly

NextTitles ==
    \/ \E newBooks \in SeqsUpTo(Refs, MaxArgs) : AddBooks(newBooks)
    \/ \E src \in {"books", "library.books"} : BookTitleGenerator(src)
    \/ GeneratorNext
    \/ ShowGeneratorExample

SpecTitles == InitTitles /\ [][NextTitles]_vars

\* the titles of the records of the array a, in order
Titles(a) == [i \in 1..Len(a) |-> heap[a[i].id].title]

\* C16: iterating bookTitleGenerator(R) yields the title of the i-th record
\* of R as its i-th value and, after len(R) values, reports done; at that
\* moment exactly the titles of R have been yielded, in order.  The for-of
\* loop of showGeneratorExample collects exactly the titles of its array.
C16_TitlesInOrder ==
    [][/\ (last'.op = "next" /\ ~gen.done) =>
             LET R == GenArray(gen, books)
             IN  /\ Len(gen.out) = gen.idx
                 /\ gen.idx < Len(R) =>
                       /\ last'.ret = IterResult(Titles(R)[gen.idx + 1], FALSE)
                       /\ gen'.out = Append(gen.out, Titles(R)[gen.idx + 1])
                       /\ ~gen'.done
                 /\ gen.idx >= Len(R) =>
                       /\ last'.ret = IterResult(Undef, TRUE)
                       /\ gen'.done
                       /\ gen'.out = Titles(R)
       /\ last'.op = "showGeneratorExample" =>
             gen'.done /\ gen'.out = Titles(DataBooks)]_vars

\* a generator has been stepped to its end and has yielded the titles of
\* all records of its array, which are at least two
C16_Witness ==
    /\ last.op = "next"
    /\ last.ret.done
    /\ gen.done
    /\ Len(gen.out) >= 2
    /\ gen.out = Titles(GenArray(gen, books))

\* C17: the title sequence can be started again and is live: whenever an
\* iteration reaches its end, even after records were added with addBooks,
\* it has yielded the titles of all records then in the catalog, in
\* catalog order.
C17_TitlesAreLive ==
    [][((~gen.done /\ gen'.done) \/ last'.op = "showGeneratorExample") =>
          gen'.out = [i \in 1..Len(books') |-> heap'[books'[i].id].title]]_vars

---------------------------------------------------------------------------
(* createBookSummary and formatAvailability *)

SummaryCall == last.op = "createBookSummary" /\ IsRef(last.args[2])
SummaryModule == last.args[1]
SummaryBook == heap[last.args[2].id]

\* the availability phrase for the availability av: text for a field that
\* is present, the stated default for one that is absent
Phrase(av) ==
    IF Nullish(av) THEN STATUS_UNKNOWN
    ELSE IF av.status = AVAILABLE
         THEN AVAILABLE_AT \o (IF Nullish(av.location) THEN UNKNOWN_LOCATION
                               ELSE ToStr(av.location))
    ELSE IF av.status = CHECKED_OUT
         THEN CHECKED_OUT_DUE_ON \o (IF Nullish(av.dueDate) THEN N_A
                                     ELSE ToStr(av.dueDate))
    ELSE STATUS_UNKNOWN

\* C18: in every variant createBookSummary(book) returns exactly
\* '<title> by <author> (<year>) - <phrase>', the phrase being
\* 'Available at <location>' or 'Available at Unknown Location' for an
\* available book, 'Checked out, due on <dueDate>' or 'Checked out, due on
\* N/A' for a checked-out one, and 'Status Unknown' for a book without
\* availability.
C18_SummaryFormat ==
    (/\ SummaryCall
     /\ \/ SummaryBook.availability = Undef
        \/ /\ IsObj(SummaryBook.availability)
           /\ SummaryBook.availability.status \in {AVAILABLE, CHECKED_OUT}) =>
        /\ ~last.threw
        /\ last.ret = Str(ToStr(SummaryBook.title) \o SEP_BY
                          \o ToStr(SummaryBook.author) \o PAREN_OPEN
                          \o ToStr(SummaryBook.year) \o PAREN_CLOSE \o HYPHEN
                          \o Phrase(SummaryBook.availability))

\* the phrase each file uses for an unknown status
UnknownPhrase(module) ==
    CASE module = ORIGINAL -> AVAILABILITY_UNKNOWN
      [] module = REFACTOR -> STATUS_UNKNOWN_LOWER
      [] module = BUNDLE -> STATUS_UNKNOWN

EndsWith(s, suffix) ==
    /\ Len(suffix) <= Len(s)
    /\ SubSeq(s, Len(s) - Len(suffix) + 1, Len(s)) = suffix

\* C19: every consumer treats a record whose availability is missing,
\* undefined or null as of unknown status and raises no error for it:
\* createBookSummary returns a summary that ends with the unknown-status
\* phrase, formatAvailability returns its unknown text, filterBooksByStatus
\* (asked for a status) leaves the record out, and the statistics count it
\* in total only.
C19_AbsentAvailabilityIsUnknown ==
    /\ (SummaryCall /\ Nullish(SummaryBook.availability)) =>
          /\ ~last.threw
          /\ EndsWith(last.ret.s, UnknownPhrase(SummaryModule))
    /\ (last.op = "formatAvailability" /\ Nullish(last.args[1])) =>
          /\ ~last.threw
          /\ last.ret = Str(IF impl = "v1" THEN UI_AVAILABILITY_UNKNOWN
                            ELSE UI_UNKNOWN_STATUS)
    /\ (FilterCall /\ IsArray(FilterArray) /\ IsStr(FilterStatus)) =>
          /\ ~last.threw
          /\ \A i \in 1..Len(last.ret) :
                ~Nullish(heap[last.ret[i].id].availability)
    /\ statistics.total = Len(books)
    /\ statistics.available + statistics.checkedOut
          <= Len(books) - NumWithoutAvailability

---------------------------------------------------------------------------
(* memoize *)

\* JSON.stringify of one element of the args array: a string in double
\* quotes (the strings used here hold nothing that is escaped), a number in
\* decimal, null as null, and undefined, inside an array, as null too
stringifyValue(v) ==
    CASE IsStr(v) -> <<"\"">> \o v.s \o <<"\"">>
      [] v.t = "number" -> NumberToString(v.n)
      [] OTHER -> NULL

RECURSIVE stringifyFrom(_, _)
\* the serialized elements from position i on, separated by commas
stringifyFrom(args, i) ==
    IF i > Len(args) THEN <<>>
    ELSE IF i = Len(args) THEN stringifyValue(args[i])
    ELSE stringifyValue(args[i]) \o <<",">> \o stringifyFrom(args, i + 1)

\* const key = JSON.stringify(args)
stringify(args) == <<"[">> \o stringifyFrom(args, 1) \o <<"]">>

\* cache.has(key), cache.get(key), cache.set(key, value) on the entries
CacheHas(cache, key) == \E e \in cache : e.key = key
CacheGet(cache, key) == (CHOOSE e \in cache : e.key = key).value
CacheSet(cache, key, value) ==
    {e \in cache : e.key # key} \cup {[key |-> key, value |-> value]}

memoizedIfTruthy(im, m, args, result) ==
    LET key == stringify(args)
    IN  IF CacheHas(m.cache, key) /\ Truthy(CacheGet(m.cache, key))
        THEN [memo |-> m, ret |-> CacheGet(m.cache, key)]
        ELSE [memo |-> [m EXCEPT !.cache = CacheSet(m.cache, key, result),
                                 !.calls = m.calls (+) SetToBag({args})],
              ret |-> result]

\* one call (...args) of the function returned by memoize(fn); result is
\* what fn(...args) returns if it is invoked now.
\*   v1: if (!cache.has(key)) { ...; cache.set(key, result); }
\*       return cache.get(key);
\*   v2: if (cache.has(key)) return cache.get(key);
\*       ...; cache.set(key, result); return result;
memoized(im, m, args, result) ==
    LET key == stringify(args)
    IN  IF CacheHas(m.cache, key)
        THEN [memo |-> m, ret |-> CacheGet(m.cache, key)]
        ELSE LET cache == CacheSet(m.cache, key, result)
             IN  [memo |-> [m EXCEPT !.cache = cache,
                                     !.calls = m.calls (+) SetToBag({args})],
                  ret |-> IF im = "v1" THEN CacheGet(cache, key) ELSE result]

\* most invocations of fn with one argument list
MaxCalls == 2

\* argument lists: (1, 2) and (2, 1), (1) and ('1'), (null) and (undefined)
MemoArgs ==
    {<<Num(1), Num(2)>>, <<Num(2), Num(1)>>, <<Num(1)>>, <<Str(<<"1">>)>>,
     <<Null>>, <<Undef>>}

\* values fn returns; a function like the demo's num ** 2 + Math.random()
\* may return another one each time
FnResults == {Undef, Num(0), Num(7)}

\* the wrapped functions: the demo's, which returns another value each
\* time, and a pure one, (x) => x
MemoFns == {"random", "identity"}

\* the values fn(...args) can return
fnReturns(fn, args) == IF fn = "identity" THEN {args[1]} ELSE FnResults

\* m = memoize(fn): a new memoized function with a cache of its own
Memoize(fn) ==
    /\ memo' = memoize(fn)
    /\ last' = Call("memoize", <<fn>>, FALSE, Undef)
    /\ UNCHANGED <<impl, heap, books, statistics, gen, outside, apps>>

Memoized(args, result) ==
    /\ result \in fnReturns(memo.fn, args)
    /\ LET r == memoized(impl, memo, args, result)
       IN  /\ \A a \in MemoArgs : CopiesIn(a, r.memo.calls) <= MaxCalls
           /\ memo' = r.memo
           /\ last' = Call("memoized", args, FALSE, r.ret)
    /\ UNCHANGED <<impl, heap, books, statistics, gen, outside, apps>>

InitMemo ==
    /\ impl \in {"v1", "v2"}
    /\ heap = [i \in ObjIds |-> books_data[((i - 1) % Len(books_data)) + 1]]
    /\ Constructed(<<>>)
    /\ LibraryOnly

NextMemo ==
    \/ \E fn \in MemoFns : Memoize(fn)
    \/ \E args \in MemoArgs, result \in FnResults \cup {Num(1), Num(2), Str(<<"1">>), Null} :
          Memoized(args, result)

SpecMemo == InitMemo /\ [][NextMemo]_vars

\* how often fn has been invoked with an argument list serialized as key
Invocations(key) ==
    LET as == {a \in MemoArgs : stringify(a) = key}
        count[S \in SUBSET as] ==
            IF S = {} THEN 0
            ELSE LET a == CHOOSE x \in S : TRUE
                 IN  CopiesIn(a, memo.calls) + count[S \ {a}]
    IN  count[as]

Identity(args) == args[1]

\* C21: every call of a memoized function returns the value stored for its
\* serialized argument list, which is the value the wrapped function
\* returned on the first call with that serialization and never changes
\* afterwards, falsy or not; and for a pure function f the call
\* memoize(f)(args) returns f(args), for every argument list.
C21_ReturnsFirstResult ==
    [][/\ last'.op = "memoized" =>
             /\ CacheHas(memo'.cache, stringify(last'.args))
             /\ last'.ret = CacheGet(memo'.cache, stringify(last'.args))
             /\ \A e \in memo.cache : e \in memo'.cache
             /\ memo'.fn = "identity" => last'.ret = Identity(last'.args)]_vars

\* C22: the cache key is an injective encoding of the argument list:
\* equal argument lists have equal keys and distinct argument lists have
\* distinct keys, so (1, 2) and (2, 1), (1) and ('1'), and (null) and
\* (undefined) never share a cache entry.
C22_KeyInjective ==
    \A a, b \in MemoArgs :
        (CopiesIn(a, memo.calls) > 0 /\ last.op = "memoized" /\ last.args = b) =>
            (stringify(a) = stringify(b) <=> a = b)

---------------------------------------------------------------------------
(* the catalog is append-only *)

IsPrefix(s, t) == Len(s) <= Len(t) /\ SubSeq(t, 1, Len(s)) = s

\* C23: across addBooks, updateBook, searchBooks and getStatistics the
\* record sequence before an operation is a prefix of the one after it, so
\* no record is removed, moved or replaced; and the field values of a
\* record change in updateBook only.
C23_AppendOnly ==
    [][/\ IsPrefix(books, books')
       /\ books' # books => last'.op = "addBooks"
       /\ heap' # heap => last'.op = "updateBook"]_vars

\* records were appended to a catalog one of whose records updateBook had
\* changed before
C23_Witness ==
    /\ last.op = "addBooks"
    /\ Len(last.args) >= 1
    /\ Len(books) >= 2
    /\ \E i \in 1..(Len(books) - Len(last.args)) :
          heap[books[i].id] # books_data[((books[i].id - 1) % Len(books_data)) + 1]

---------------------------------------------------------------------------
(* The manager and the code around it.  outside holds what that code has   *)
(* in hand: initialBooks, the array it passed to the constructor; returned,*)
(* the object its last getStatistics() call gave it; second, another       *)
(* LibraryManager constructed from the same array.  Book objects are       *)
(* shared through the heap, arrays and statistics objects are values with  *)
(* the copies the code makes.                                              *)

\* { ...this.#statistics }: a new object holding the same counts; same says
\* whether the object in the caller's hand is the manager's own
spread(obj) == [same |-> FALSE, value |-> obj]

\* new LibraryManager(initialBooks), twice, with the same array: each
\* constructor does this.books = [...initialBooks]
Outside(initialBooks, hp) ==
    [initialBooks |-> initialBooks,
     returned |-> Undef,
     second |-> [books |-> initialBooks,
                 statistics |-> updateStatistics(initialBooks, hp)]]

\* const stats = library.getStatistics()
CallerGetStatistics ==
    /\ statistics' = getStatistics(impl, statistics, books, heap)
    /\ outside' = [outside EXCEPT !.returned = spread(statistics')]
    /\ last' = Call("getStatistics", <<>>, FALSE, statistics')
    /\ UNCHANGED <<impl, heap, books, gen, memo, apps>>

\* initialBooks.push(r), by the caller
SeedPush(r) ==
    /\ Len(outside.initialBooks) <= MaxObjs
    /\ outside' = [outside EXCEPT !.initialBooks = Append(@, r)]
    /\ last' = Call("initialBooks.push", <<r>>, FALSE, Undef)
    /\ UNCHANGED <<impl, heap, books, statistics, gen, memo, apps>>

\* initialBooks[i] = r, by the caller
SeedAlter(i, r) ==
    /\ i \in 1..Len(outside.initialBooks)
    /\ outside' = [outside EXCEPT !.initialBooks[i] = r]
    /\ last' = Call("initialBooks[i] =", <<Num(i), r>>, FALSE, Undef)
    /\ UNCHANGED <<impl, heap, books, statistics, gen, memo, apps>>

\* stats.total = n, on the object getStatistics() returned
MutateReturned(n) ==
    /\ outside.returned # Undef
    /\ outside' = [outside EXCEPT !.returned.value.total = n]
    /\ statistics' = IF outside.returned.same
                     THEN [statistics EXCEPT !.total = n] ELSE statistics
    /\ last' = Call("stats.total =", <<Num(n)>>, FALSE, Undef)
    /\ UNCHANGED <<impl, heap, books, gen, memo, apps>>

\* second.updateBook(book, updates): the second manager was handed the same
\* book objects, so the assignments land in the objects of the first
SecondUpdateBook(target, updates) ==
    /\ LET r == updateBook(impl, heap[target.id], updates)
       IN  /\ heap' = [heap EXCEPT ![target.id] = r.book]
           /\ outside' = [outside EXCEPT !.second.statistics =
                             statisticsAfter(r.refreshed, @, outside.second.books, heap')]
           /\ last' = Call("second.updateBook", <<target, updates>>, r.threw,
                           IF impl = "v1" /\ ~r.threw THEN target ELSE Undef)
    /\ UNCHANGED <<impl, books, statistics, gen, memo, apps>>

InitAlias ==
    /\ impl \in {"v1", "v2"}
    /\ heap = [i \in ObjIds |-> books_data[((i - 1) % Len(books_data)) + 1]]
    /\ Constructed(DataBooks)
    /\ outside = Outside(DataBooks, heap)
    /\ todo = TodoLoaded
    /\ page = PageLoaded
    /\ card = CardCreated

NextAlias ==
    \/ AddBooks(<<Ref(1)>>)
    \/ \E updates \in UpdateLits : UpdateBook(Ref(1), updates)
    \/ CallerGetStatistics
    \/ SeedPush(Ref(1))
    \/ SeedAlter(1, Ref(MaxObjs))
    \/ MutateReturned(0)
    \/ \E target \in Refs, updates \in UpdateLits : SecondUpdateBook(target, updates)

SpecAlias == InitAlias /\ [][NextAlias]_vars

\* searches whose answer depends on the fields updateBook fills in
AliasCriteria ==
    CriteriaLits \cup {Criteria(Undef, Undef, Str(<<"y">>)),
                       Criteria(Str(<<"y">>), Undef, Undef)}

\* what getStatistics() and searchBooks() would return now
Observed(bs, st, hp) ==
    [statistics |-> getStatistics(impl, st, bs, hp),
     found |-> [c \in AliasCriteria |-> searchBooks(impl, bs, hp, c, FALSE)]]

OutsideOps ==
    {"initialBooks.push", "initialBooks[i] =", "stats.total =", "second.updateBook"}

\* C24: nothing done outside the manager's own addBooks and updateBook
\* changes what its getStatistics() and searchBooks() return: not a push to
\* or an assignment in the seed array, not a write to the object that
\* getStatistics() returned, not an updateBook through a second manager
\* seeded with the same records.
C24_NotAliased ==
    [][last'.op \in OutsideOps =>
          Observed(books', statistics', heap') = Observed(books, statistics, heap)]_vars

\* the part of it about the arrays and statistics objects alone
C24_CopiesNotAliased ==
    [][last'.op \in OutsideOps \ {"second.updateBook"} =>
          Observed(books', statistics', heap') = Observed(books, statistics, heap)]_vars

---------------------------------------------------------------------------
(* The to-do list.  todo.tasks is the array tasks, todo.localStorage the   *)
(* item stored under "todos" (Null while there is none), todo.activeFilter *)
(* the data-filter of the button with class "active", todo.todoList the    *)
(* rows of <ul id="todo-list">, todo.now the clock read by new Date(), and *)
(* todo.engine the sorting algorithm of the browser.  Texts are sequences  *)
(* of characters; a due date is the value of the date input, "" for none.  *)

\* number of tasks ever added
MaxAdds == 3

Whitespace == {" "}

\* String.prototype.trim
RECURSIVE trimStart(_)
trimStart(s) ==
    IF s # <<>> /\ Head(s) \in Whitespace THEN trimStart(Tail(s)) ELSE s

RECURSIVE trimEnd(_)
trimEnd(s) ==
    IF s # <<>> /\ s[Len(s)] \in Whitespace
    THEN trimEnd(SubSeq(s, 1, Len(s) - 1)) ELSE s

trim(s) == trimEnd(trimStart(s))

\* the values of the date input, in calendar order
Dates == <<"2025-01-01", "2025-01-02">>

\* new Date(due).getTime(), in days
getTime(due) == CHOOSE i \in 1..Len(Dates) : Dates[i] = due

\* the comparator of sortTasks: completed last, then by due date where both
\* tasks have one, else 0
compare(a, b) ==
    IF a.completed # b.completed THEN (IF a.completed THEN 1 ELSE -1)
    ELSE IF a.due # "" /\ b.due # "" THEN getTime(a.due) - getTime(b.due)
    ELSE 0

\* Array.prototype.sort with a comparator that is not a consistent ordering
\* (a task without a date compares equal to every task of its state) gives
\* an implementation-defined order.  Two algorithms engines use on short
\* arrays: binary insertion and linear insertion, both stable.
Engines == {"binary", "linear"}

\* binary insertion: the place of pivot in the sorted s, searched in
\* s[left+1 .. right]
RECURSIVE binarySearch(_, _, _, _)
binarySearch(s, pivot, left, right) ==
    IF left >= right THEN left
    ELSE LET mid == left + ((right - left) \div 2)
         IN  IF compare(pivot, s[mid + 1]) < 0
             THEN binarySearch(s, pivot, left, mid)
             ELSE binarySearch(s, pivot, mid + 1, right)

\* linear insertion: pivot moves left past every element greater than it
RECURSIVE linearSearch(_, _, _)
linearSearch(s, pivot, right) ==
    IF right > 0 /\ compare(s[right], pivot) > 0
    THEN linearSearch(s, pivot, right - 1) ELSE right

insertAt(s, k, x) == SubSeq(s, 1, k) \o <<x>> \o SubSeq(s, k + 1, Len(s))

RECURSIVE sortFrom(_, _, _)
sortFrom(engine, sorted, rest) ==
    IF rest = <<>> THEN sorted
    ELSE LET x == Head(rest)
             k == IF engine = "binary"
                  THEN binarySearch(sorted, x, 0, Len(sorted))
                  ELSE linearSearch(sorted, x, Len(sorted))
         IN  sortFrom(engine, insertAt(sorted, k, x), Tail(rest))

\* sortTasks(): tasks.sort(comparator)
sortTasks(engine, ts) == sortFrom(engine, <<>>, ts)

\* JSON.stringify(tasks): one object per task, each a list of key and
\* value texts; strings are written in quotes, booleans as true and false
Quote(s) == <<"\"">> \o s \o <<"\"">>
Unquote(s) == SubSeq(s, 2, Len(s) - 1)

stringifyTask(t) ==
    [text |-> Quote(t.text), due |-> Quote(<<t.due>>),
     category |-> Quote(<<t.category>>),
     completed |-> IF t.completed THEN "true" ELSE "false",
     createdAt |-> Quote(<<t.createdAt>>)]

stringifyTasks(ts) == Str([i \in 1..Len(ts) |-> stringifyTask(ts[i])])

\* JSON.parse(localStorage.getItem("todos")) || []
parseTask(j) ==
    [text |-> Unquote(j.text), due |-> Unquote(j.due)[1],
     category |-> Unquote(j.category)[1],
     completed |-> (j.completed = "true"),
     createdAt |-> Unquote(j.createdAt)[1]]

parseTasks(item) ==
    IF item = Null THEN <<>> ELSE [i \in 1..Len(item.s) |-> parseTask(item.s[i])]

\* the tasks displayTasks(filter) shows, in order
filtered(filter, ts) ==
    IF filter = "all" THEN ts
    ELSE IF filter = "completed" THEN SelectSeq(ts, LAMBDA t : t.completed)
    ELSE SelectSeq(ts, LAMBDA t : ~t.completed)

\* displayTasks(filter): one <li> per shown task, data-index its position
\* among the shown tasks, the checkbox checked when the task is completed
displayTasks(filter, ts) ==
    LET f == filtered(filter, ts)
    IN  [i \in 1..Len(f) |-> [index |-> i - 1, task |-> f[i]]]

renderOnly(td) ==
    [td EXCEPT !.todoList = displayTasks(td.activeFilter, td.tasks)]

\* saveAndRender(): setItem("todos", JSON.stringify(tasks)), then
\* displayTasks(the active filter)
saveAndRender(td) ==
    [td EXCEPT !.localStorage = stringifyTasks(td.tasks),
               !.todoList = displayTasks(td.activeFilter, td.tasks)]

\* tasks.splice(idx, 1)
splice(ts, idx) == SubSeq(ts, 1, idx) \o SubSeq(ts, idx + 2, Len(ts))

\* the click handler of #add-btn, with the values of the two inputs
AddClick(text, due) ==
    /\ todo.now < MaxAdds
    /\ LET trimmed == trim(text)
           newTask == [text |-> trimmed, due |-> due, category |-> "general",
                       completed |-> FALSE, createdAt |-> todo.now]
       IN  IF trimmed = <<>>
           THEN todo' = todo
           ELSE todo' = saveAndRender(
                    [todo EXCEPT !.tasks = sortTasks(todo.engine, Append(@, newTask)),
                                 !.now = @ + 1])
    /\ last' = Call("addClick", <<text, due>>, FALSE, Undef)
    /\ UNCHANGED <<impl, heap, books, statistics, gen, memo, outside, page, card>>

\* the click handler of #todo-list, for a click on the remove button of
\* the row-th displayed row
RemoveClick(row) ==
    /\ row \in 1..Len(todo.todoList)
    /\ LET idx == todo.todoList[row].index
       IN  todo' = saveAndRender([todo EXCEPT !.tasks = splice(@, idx)])
    /\ last' = Call("removeClick", <<row>>, FALSE, Undef)
    /\ UNCHANGED <<impl, heap, books, statistics, gen, memo, outside, page, card>>

\* the same handler for a click on the checkbox of the row-th displayed
\* row; the click has flipped the checkbox before the handler runs
CheckboxClick(row) ==
    /\ row \in 1..Len(todo.todoList)
    /\ LET idx == todo.todoList[row].index
           checked == ~todo.todoList[row].task.completed
           set == [todo.tasks EXCEPT ![idx + 1].completed = checked]
       IN  todo' = saveAndRender([todo EXCEPT !.tasks = sortTasks(todo.engine, set)])
    /\ last' = Call("checkboxClick", <<row>>, FALSE, Undef)
    /\ UNCHANGED <<impl, heap, books, statistics, gen, memo, outside, page, card>>

Filters == {"all", "completed", "pending"}

\* the click handler of a .filter-btn
FilterClick(filter) ==
    /\ todo' = [todo EXCEPT !.activeFilter = filter,
                            !.todoList = displayTasks(filter, todo.tasks)]
    /\ last' = Call("filterClick", <<filter>>, FALSE, Undef)
    /\ UNCHANGED <<impl, heap, books, statistics, gen, memo, outside, page, card>>

\* the page is loaded again: tasks come from localStorage and
\* displayTasks() shows them all
Reload ==
    /\ LET ts == parseTasks(todo.localStorage)
       IN  todo' = [todo EXCEPT !.tasks = ts, !.activeFilter = "all",
                                !.todoList = displayTasks("all", ts)]
    /\ last' = Call("load", <<>>, FALSE, Undef)
    /\ UNCHANGED <<impl, heap, books, statistics, gen, memo, outside, page, card>>

TodoTexts == {<<>>, <<" ">>, <<" ", "a">>}
TodoDues == {""} \cup {Dates[i] : i \in 1..Len(Dates)}

InitTodo ==
    /\ impl = "v2"
    /\ heap = <<>>
    /\ Constructed(<<>>)
    /\ outside = NoOutside
    /\ \E engine \in Engines : todo = [TodoLoaded EXCEPT !.engine = engine]
    /\ page = PageLoaded
    /\ card = CardCreated

NextTodo ==
    \/ \E text \in TodoTexts, due \in TodoDues : AddClick(text, due)
    \/ \E row \in 1..MaxAdds : RemoveClick(row)
    \/ \E row \in 1..MaxAdds : CheckboxClick(row)
    \/ \E filter \in Filters : FilterClick(filter)
    \/ Reload

SpecTodo == InitTodo /\ [][NextTodo]_vars

\* the tasks of ts other than t, in order
Without(ts, t) == SelectSeq(ts, LAMBDA u : u # t)

\* the tasks as a set: what is in the list, whatever the order
TaskSet(ts) == {ts[i] : i \in 1..Len(ts)}

\* the task shown in the row that the last click was on
ShownBefore == todo.todoList[last'.args[1]].task

\* C25: a click on the remove button of a displayed row removes exactly
\* the task shown in that row, and a click on its checkbox flips the
\* completed flag of exactly that task, under each of the filters "all",
\* "completed" and "pending"; no other task is removed or changed.
C25_ClickActsOnShownTask ==
    [][/\ last'.op = "removeClick" =>
             todo'.tasks = Without(todo.tasks, ShownBefore)
       /\ last'.op = "checkboxClick" =>
             TaskSet(todo'.tasks) =
                 (TaskSet(todo.tasks) \ {ShownBefore})
                     \cup {[ShownBefore EXCEPT !.completed = ~@]}]_vars

\* the same while all tasks are displayed
C25_UnderFilterAll ==
    [][todo.activeFilter = "all" =>
          /\ last'.op = "removeClick" =>
                todo'.tasks = Without(todo.tasks, ShownBefore)
          /\ last'.op = "checkboxClick" =>
                TaskSet(todo'.tasks) =
                    (TaskSet(todo.tasks) \ {ShownBefore})
                        \cup {[ShownBefore EXCEPT !.completed = ~@]}]_vars

\* the handler of the last click changed the tasks or the stored list
Changing ==
    \/ last'.op \in {"removeClick", "checkboxClick"}
    \/ last'.op = "addClick" /\ trim(last'.args[1]) # <<>>

\* C29: after every add, toggle or remove handler the list stored under
\* "todos" reads back as the tasks array, with the same tasks in the same
\* order and with the same completed flags; an add whose text is empty or
\* only whitespace changes neither the tasks nor the stored list.
C29_StoredEqualsTasks ==
    [][/\ Changing =>
             /\ todo'.localStorage # Null
             /\ parseTasks(todo'.localStorage) = todo'.tasks
       /\ (last'.op = "addClick" /\ trim(last'.args[1]) = <<>>) =>
             /\ todo'.tasks = todo.tasks
             /\ todo'.localStorage = todo.localStorage]_vars

\* a whitespace-only add was ignored after a toggle had moved a task and
\* the list had been stored
C29_Witness ==
    /\ last.op = "addClick"
    /\ last.args[1] = <<" ">>
    /\ Len(todo.tasks) >= 2
    /\ todo.tasks[Len(todo.tasks)].completed
    /\ todo.tasks[Len(todo.tasks)].createdAt = 0
    /\ parseTasks(todo.localStorage) = todo.tasks

\* no completed task stands before an incomplete one
CompletedLast ==
    \A i, j \in 1..Len(todo.tasks) :
        (i < j /\ todo.tasks[i].completed) => todo.tasks[j].completed

\* two tasks of the same state that both have a due date stand in the
\* order of their dates
DatedInOrder ==
    \A i, j \in 1..Len(todo.tasks) :
        (/\ i < j
         /\ todo.tasks[i].completed = todo.tasks[j].completed
         /\ todo.tasks[i].due # ""
         /\ todo.tasks[j].due # "") =>
            getTime(todo.tasks[i].due) <= getTime(todo.tasks[j].due)

\* C30: after any sequence of adds, toggles and removals on a list that
\* started empty, no completed task precedes an incomplete one, and two
\* tasks of the same completion state that both have a due date stand with
\* the earlier date first.
C30_Sorted == CompletedLast /\ DatedInOrder

---------------------------------------------------------------------------
(* The user and posts page.  page.submissions holds one entry per run of   *)
(* the async submit handler that got past its guard, with pc the await it  *)
(* is suspended at ("getUser", "getPosts") or "done"; page.requests the    *)
(* fetch calls issued, in order; page.sessionLog the array sessionLog,     *)
(* newest entry first; page.userInfoDiv what #user-info shows.  Log        *)
(* entries, requests and the shown content carry the number of the         *)
(* submission they stem from (of), 0 for none; the clock time that         *)
(* logActivity appends to a message is left out.                           *)

\* number of submissions that issue a request
MaxSubs == 2

\* the ways a fetch(...).then(...) chain of getUser or getPosts settles:
\* fulfilled with the parsed body, rejected by the throw for !res.ok, or
\* rejected by fetch itself
Settlements == {"ok", "notOk", "failed"}

USER_NOT_FOUND == "User not found!"
FAILED_TO_LOAD_POSTS == "Failed to load posts!"
FAILED_TO_FETCH == "Failed to fetch"

\* err.message in the catch block
message(kind, settlement) ==
    IF settlement = "failed" THEN FAILED_TO_FETCH
    ELSE IF kind = "user" THEN USER_NOT_FOUND ELSE FAILED_TO_LOAD_POSTS

\* logActivity(msg): sessionLog.unshift(message)
logActivity(pg, entry) == [pg EXCEPT !.sessionLog = <<entry>> \o @]

\* fetch(url) in getUser(id) or getPosts(userId)
fetch(pg, kind, id, i) ==
    [pg EXCEPT !.requests = Append(@, [kind |-> kind, id |-> id, of |-> i])]

catchNoLog(pg, i, msg) ==
    [pg EXCEPT !.userInfoDiv = [shows |-> "error", text |-> msg,
                                 id |-> pg.submissions[i].userId, of |-> i],
               !.submissions[i].pc = "done"]

\* catch (err): the error paragraph, then logActivity(`Error: ...`)
catch(pg, i, msg) ==
    logActivity(
        [pg EXCEPT !.userInfoDiv = [shows |-> "error", text |-> msg,
                                    id |-> pg.submissions[i].userId, of |-> i],
                   !.submissions[i].pc = "done"],
        [msg |-> "Error: ", text |-> msg, of |-> i])

\* displayUserInfo(user, posts), then logActivity(`Loaded user ...`)
loaded(pg, i) ==
    logActivity(
        [pg EXCEPT !.userInfoDiv = [shows |-> "user-card",
                                    text |-> pg.submissions[i].userId,
                                    id |-> pg.submissions[i].userId, of |-> i],
                   !.submissions[i].pc = "done"],
        [msg |-> "Loaded user ", text |-> pg.submissions[i].userId, of |-> i])

\* the submit handler up to its first await: the guard on the trimmed
\* value of #userId, the "Searching" entry, and the call of getUser
Submit(text) ==
    /\ LET userId == trim(text)
           i == Len(page.submissions) + 1
       IN  IF userId = <<>>
           THEN page' = page
           ELSE /\ i <= MaxSubs
                /\ page' = fetch(
                       logActivity(
                           [page EXCEPT !.submissions =
                                            Append(@, [userId |-> userId, pc |-> "getUser"])],
                           [msg |-> "Searching for user ID ", text |-> userId, of |-> i]),
                       "user", userId, i)
    /\ last' = Call("submit", <<text>>, FALSE, Undef)
    /\ UNCHANGED <<impl, heap, books, statistics, gen, memo, outside, todo, card>>

\* await getUser(userId) of the i-th submission settles: the handler goes
\* on to getPosts(userId), or to its catch block
UserSettles(i, settlement) ==
    /\ i \in 1..Len(page.submissions)
    /\ page.submissions[i].pc = "getUser"
    /\ page' = IF settlement = "ok"
               THEN fetch([page EXCEPT !.submissions[i].pc = "getPosts"],
                          "posts", page.submissions[i].userId, i)
               ELSE catch(page, i, message("user", settlement))
    /\ last' = Call("getUser settles", <<i, settlement>>, settlement # "ok", Undef)
    /\ UNCHANGED <<impl, heap, books, statistics, gen, memo, outside, todo, card>>

\* await getPosts(userId) of the i-th submission settles: the handler
\* renders the card and logs, or goes to its catch block
PostsSettles(i, settlement) ==
    /\ i \in 1..Len(page.submissions)
    /\ page.submissions[i].pc = "getPosts"
    /\ page' = IF settlement = "ok"
               THEN loaded(page, i)
               ELSE catch(page, i, message("posts", settlement))
    /\ last' = Call("getPosts settles", <<i, settlement>>, settlement # "ok", Undef)
    /\ UNCHANGED <<impl, heap, books, statistics, gen, memo, outside, todo, card>>

UserIdTexts == {<<>>, <<" ">>, <<"1">>, <<" ", "2">>}

InitFetch ==
    /\ impl = "v2"
    /\ heap = <<>>
    /\ Constructed(<<>>)
    /\ outside = NoOutside
    /\ todo = TodoLoaded
    /\ page = PageLoaded
    /\ card = CardCreated

NextFetch ==
    \/ \E text \in UserIdTexts : Submit(text)
    \/ \E i \in 1..MaxSubs, settlement \in Settlements : UserSettles(i, settlement)
    \/ \E i \in 1..MaxSubs, settlement \in Settlements : PostsSettles(i, settlement)

SpecFetch == InitFetch /\ [][NextFetch]_vars

\* every fetch settles in the end: a handler suspended at an await is
\* resumed
FetchesSettle ==
    \A i \in 1..MaxSubs :
        /\ WF_vars(\E settlement \in Settlements : UserSettles(i, settlement))
        /\ WF_vars(\E settlement \in Settlements : PostsSettles(i, settlement))

SpecFetchLive == SpecFetch /\ FetchesSettle

AllSettled ==
    /\ page.submissions # <<>>
    /\ \A i \in 1..Len(page.submissions) : page.submissions[i].pc = "done"

\* C26: with several submissions in flight and their responses arriving in
\* any order, once every request has settled the user-info area shows the
\* card or the error of the user ID submitted last, never that of an
\* earlier submission.
C26_ShowsLatestSubmission ==
    AllSettled =>
        page.userInfoDiv.id = page.submissions[Len(page.submissions)].userId

\* the same for a single submission
C26_SingleSubmission ==
    (AllSettled /\ Len(page.submissions) = 1) =>
        page.userInfoDiv.id = page.submissions[1].userId

\* how many entries of the session log with the text msg stem from the
\* i-th submission
Entries(i, msg) ==
    Cardinality({k \in 1..Len(page.sessionLog) :
                    page.sessionLog[k].of = i /\ page.sessionLog[k].msg = msg})

\* how many requests of a kind the i-th submission has issued
Requests(i, kind) ==
    Cardinality({k \in 1..Len(page.requests) :
                    page.requests[k].of = i /\ page.requests[k].kind = kind})

Outcomes(i) == Entries(i, "Loaded user ") + Entries(i, "Error: ")

\* the log and the requests of every submission so far
C28_Logged ==
    /\ \A i \in 1..Len(page.submissions) :
          /\ Entries(i, "Searching for user ID ") = 1
          /\ Outcomes(i) = (IF page.submissions[i].pc = "done" THEN 1 ELSE 0)
          /\ Requests(i, "user") = 1
          /\ Requests(i, "posts") <= 1
    /\ \A k \in 1..Len(page.sessionLog) :
          page.sessionLog[k].of \in 0..Len(page.submissions)
    /\ \A k \in 1..Len(page.requests) :
          page.requests[k].of \in 1..Len(page.submissions)

\* what one step does: an empty ID leaves the page as it is; a posts
\* request appears only in the step in which the user request of the same
\* submission is fulfilled; the step that ends a submission renders its
\* card or its error and logs the matching entry
C28_Step ==
    /\ (last'.op = "submit" /\ trim(last'.args[1]) = <<>>) => page' = page
    /\ page'.requests # page.requests =>
          LET r == page'.requests[Len(page'.requests)]
          IN  /\ page'.requests = Append(page.requests, r)
              /\ r.kind = "posts" =>
                    /\ last'.op = "getUser settles"
                    /\ last'.args = <<r.of, "ok">>
              /\ r.kind = "user" => last'.op = "submit"
    /\ \A i \in 1..Len(page.submissions) :
          (page.submissions[i].pc # "done" /\ page'.submissions[i].pc = "done") =>
              /\ page'.userInfoDiv.of = i
              /\ page'.sessionLog = <<Head(page'.sessionLog)>> \o page.sessionLog
              /\ Head(page'.sessionLog).of = i
              /\ \/ /\ page'.userInfoDiv.shows = "user-card"
                    /\ Head(page'.sessionLog).msg = "Loaded user "
                 \/ /\ page'.userInfoDiv.shows = "error"
                    /\ Head(page'.sessionLog).msg = "Error: "

\* C28: every submission with a non-empty user ID logs one "Searching for
\* user ID" entry and, every fetch settling in the end, is eventually
\* followed by exactly one outcome of its own: the user card with a
\* "Loaded user" entry, or the error message with an "Error:" entry.  The
\* posts request is issued only after the user request has succeeded, and
\* a submission with an empty ID issues no request and logs nothing.
C28_OneOutcomePerSubmission ==
    /\ []C28_Logged
    /\ [][C28_Step]_vars
    /\ \A i \in 1..MaxSubs :
          (Len(page.submissions) >= i) ~>
              (/\ Len(page.submissions) >= i
               /\ page.submissions[i].pc = "done"
               /\ Outcomes(i) = 1)

\* two submissions ended out of order, the first with its card after the
\* second had shown its error
C28_Witness ==
    /\ AllSettled
    /\ Len(page.submissions) = 2
    /\ Entries(1, "Loaded user ") = 1
    /\ Entries(2, "Error: ") = 1
    /\ page.userInfoDiv.of = 1
    /\ Requests(2, "posts") = 0

---------------------------------------------------------------------------
(* The product card.  card.name and card.price are the attributes of the   *)
(* element (Null while not set), card.nameText and card.priceText the text *)
(* of the .name and .price divs, card.listeners the number of click        *)
(* listeners registered on the button of the shadow root, card.connected   *)
(* whether the element is in a document, card.dispatched the details of    *)
(* the "purchase" events that the last click dispatched.                   *)

\* number of times the element is connected
MaxConnects == 3

\* element.textContent = v
textContent(v) == IF v = Null THEN <<>> ELSE ToStr(v)

\* attributeChangedCallback(name, oldValue, newValue)
attributeChangedCallback(cd, name, newValue) ==
    IF name = "name"
    THEN [cd EXCEPT !.name = newValue, !.nameText = textContent(newValue)]
    ELSE [cd EXCEPT !.price = newValue,
                    !.priceText = <<"$">> \o ToStr(newValue)]

\* addEventListener("click", () => {...}): every call passes a new
\* function, so every call registers one more listener
addEventListener(n) == n + 1

\* removeEventListener("click"): the listener argument is required, the
\* call raises a TypeError and removes nothing
removeEventListener(n) == [threw |-> TRUE, listeners |-> n]

\* setAttribute(name, value) or removeAttribute(name) on the element
SetAttribute(name, value) ==
    /\ card' = attributeChangedCallback(card, name, value)
    /\ last' = Call("attributeChangedCallback", <<name, value>>, FALSE, Undef)
    /\ UNCHANGED <<impl, heap, books, statistics, gen, memo, outside, todo, page>>

\* the element is inserted into a document: connectedCallback()
Connect ==
    /\ ~card.connected
    /\ card.listeners < MaxConnects
    /\ card' = [card EXCEPT !.connected = TRUE,
                            !.listeners = addEventListener(@)]
    /\ last' = Call("connectedCallback", <<>>, FALSE, Undef)
    /\ UNCHANGED <<impl, heap, books, statistics, gen, memo, outside, todo, page>>

\* the element is removed from its document: disconnectedCallback()
Disconnect ==
    /\ card.connected
    /\ LET r == removeEventListener(card.listeners)
       IN  /\ card' = [card EXCEPT !.connected = FALSE, !.listeners = r.listeners]
           /\ last' = Call("disconnectedCallback", <<>>, r.threw, Undef)
    /\ UNCHANGED <<impl, heap, books, statistics, gen, memo, outside, todo, page>>

\* one click on the button: every registered listener reads the two
\* attributes and dispatches a "purchase" event
Click ==
    /\ card' = [card EXCEPT !.dispatched =
                   [k \in 1..card.listeners |->
                       [type |-> "purchase",
                        detail |-> [name |-> card.name, price |-> card.price]]]]
    /\ last' = Call("click", <<>>, FALSE, Undef)
    /\ UNCHANGED <<impl, heap, books, statistics, gen, memo, outside, todo, page>>

CardNames == {Null, Str(<<"A">>), Str(<<"B">>)}
CardPrices == {Null, Str(<<"9">>), Num(12)}

InitCard ==
    /\ impl = "v2"
    /\ heap = <<>>
    /\ Constructed(<<>>)
    /\ outside = NoOutside
    /\ todo = TodoLoaded
    /\ page = PageLoaded
    /\ card = CardCreated

NextCard ==
    \/ \E value \in CardNames : SetAttribute("name", value)
    \/ \E value \in CardPrices : SetAttribute("price", value)
    \/ Connect
    \/ Disconnect
    \/ Click

SpecCard == InitCard /\ [][NextCard]_vars

\* C27: one click on the button of a product card that is in the document
\* dispatches exactly one "purchase" event, carrying the current name and
\* price attributes, however often the element has been connected,
\* disconnected and connected again; and disconnecting raises no error.
C27_OnePurchasePerClick ==
    /\ (last.op = "click" /\ card.connected) =>
          card.dispatched =
              <<[type |-> "purchase",
                 detail |-> [name |-> card.name, price |-> card.price]]>>
    /\ last.op = "disconnectedCallback" => ~last.threw

\* the same for an element that has been connected once and never removed
C27_FirstConnection ==
    (last.op = "click" /\ card.connected /\ card.listeners = 1) =>
        card.dispatched =
            <<[type |-> "purchase",
               detail |-> [name |-> card.name, price |-> card.price]]>>

====
